---- MODULE Spec2Model ----
(***************************************************************************)
(* A model of the quiz session server: the SessionController, the Session *)
(* registry, Session, Quiz and Question objects, the question timers and   *)
(* the acknowledgements and broadcasts each handler produces.              *)
(*                                                                         *)
(* Every handler activation is one atomic action (the server is a single   *)
(* event loop and no handler awaits).  Question objects live in a heap,    *)
(* indexed by object identity, because a timer closure keeps a question    *)
(* alive and firing after the question has left its quiz.                  *)
(***************************************************************************)
EXTENDS Integers, Sequences, FiniteSets, TLC

\* ------------------------------------------------------- program constants
minTimeLimit == 60
maxTimeLimit == 300
minTotalPoints == 100
minMcChoices == 2
maxMcChoices == 4
minFillInChoices == 1
maxFillInChoices == 3
maxMessageCharacters == 100
UnassignedIndex == -1
InitialQuestionIndex == -1
\* ResponseStatus, by the names of its members
Success == "Success"
Failure == "Failure"
\* the value of `undefined + 1`, kept apart from every count
NaN == -1

\* -------------------------------------------------------------- universes
\* a field that is absent from a payload (undefined)
Undef == "undefined"
MultipleChoiceFormat == "MultipleChoiceFormat"
FillInFormat == "FillInFormat"
\* `x in QuestionFormat` for the numeric enum: its two members
QuestionFormat == {MultipleChoiceFormat, FillInFormat}

\* String.prototype.toLowerCase on the texts the model uses
toLowerCase(s) ==
  CASE s = "Paris" -> "paris"
    [] s = "PARIS" -> "paris"
    [] s = "pArIs" -> "paris"
    [] s = "London" -> "london"
    [] OTHER -> s

\* Number.prototype.toString on the answer indices the model uses
toString(n) ==
  CASE n = 0 -> "0"
    [] n = 1 -> "1"
    [] n = 2 -> "2"
    [] n = 3 -> "3"
    [] OTHER -> "n"

RECURSIVE SumSeq(_)
SumSeq(s) == IF s = <<>> THEN 0 ELSE Head(s) + SumSeq(Tail(s))

RECURSIVE SumFn(_, _)
SumFn(f, keys) ==
  IF keys = {} THEN 0
  ELSE LET k == CHOOSE x \in keys : TRUE
       IN f[k] + SumFn(f, keys \ {k})

\* f with key k bound to v (Map.set)
MapSet(f, k, v) == [x \in (DOMAIN f) \cup {k} |-> IF x = k THEN v ELSE f[x]]
\* f without key k (Map.delete)
MapDelete(f, k) == [x \in (DOMAIN f) \ {k} |-> f[x]]
EmptyMap == [x \in {} |-> 0]

\* List.remove(i) on a 0-indexed list held as a 1-indexed sequence
ListRemove(s, i) == [j \in 1..(Len(s) - 1) |-> IF j <= i THEN s[j] ELSE s[j + 1]]
\* List.set(i, v)
ListSet(s, i, v) == [s EXCEPT ![i + 1] = v]

\* ----------------------------------------------------- question submissions
\* The submissions the owner sends.  kind is body.type; items are the choices
\* (multiple choice) or the answers (fill-in); answer is the correct choice.
McSubmission ==
  [text |-> "Q", timeLimit |-> 60, kind |-> MultipleChoiceFormat,
   items |-> << [text |-> "c1", points |-> 0], [text |-> "c2", points |-> 200] >>,
   answer |-> 1]
FillInSubmission ==
  [text |-> "Q", timeLimit |-> 60, kind |-> FillInFormat,
   items |-> << [text |-> "Paris", points |-> 100] >>,
   answer |-> 0]
\* rejected by the parser: too few points
PoorSubmission ==
  [text |-> "Q", timeLimit |-> 60, kind |-> MultipleChoiceFormat,
   items |-> << [text |-> "c1", points |-> 0], [text |-> "c2", points |-> 50] >>,
   answer |-> 1]

TotalPoints(items) == SumSeq([i \in 1..Len(items) |-> items[i].points])

validateQuestionText(text) == IF Len(text) = 0 THEN {"text"} ELSE {}
validateQuestionPoints(totalPoints) ==
  IF totalPoints < minTotalPoints THEN {"totalPoints"} ELSE {}
\* limits that exclude their end points
validateQuestionTimeLimitOpen(timeLimit) ==
  IF timeLimit <= minTimeLimit \/ timeLimit >= maxTimeLimit THEN {"timeLimit"} ELSE {}
validateQuestionTimeLimit(timeLimit) ==
  IF timeLimit < minTimeLimit \/ timeLimit > maxTimeLimit THEN {"timeLimit"} ELSE {}

\* the per-item checks of validateBody: the fields rejected
ItemErrors(items) ==
  UNION { (IF Len(items[i].text) = 0 THEN {"text"} ELSE {})
          \cup (IF items[i].points < 0 THEN {"points"} ELSE {})
          : i \in 1..Len(items) }

McValidateBody(sub) ==
  (IF Len(sub.items) < minMcChoices \/ Len(sub.items) > maxMcChoices
     THEN {"choices"}
     ELSE ItemErrors(sub.items)
          \cup validateQuestionPoints(
                 IF "points" \in ItemErrors(sub.items) THEN 0 ELSE TotalPoints(sub.items)))
  \cup (IF sub.answer < 0 \/ sub.answer >= Len(sub.items) THEN {"answer"} ELSE {})

\* FillInQuestion.validateBody resets its running total at an answer whose
\* points are rejected and keeps adding the answers after it
RECURSIVE FillInTotal(_, _)
FillInTotal(items, acc) ==
  IF items = <<>> THEN acc
  ELSE FillInTotal(Tail(items),
                   IF Head(items).points < 0 THEN 0 ELSE acc + Head(items).points)

FillInValidateBody(sub) ==
  IF Len(sub.items) < minFillInChoices \/ Len(sub.items) > maxFillInChoices
    THEN {"answers"}
    ELSE ItemErrors(sub.items) \cup validateQuestionPoints(FillInTotal(sub.items, 0))

\* fromSubmission: the set of rejected fields, empty when a Question is built
fromSubmissionErrors(sub) ==
  IF sub.kind \notin QuestionFormat THEN {"body"}
  ELSE (IF sub.kind = MultipleChoiceFormat
          THEN McValidateBody(sub) ELSE FillInValidateBody(sub))
       \cup validateQuestionText(sub.text)
       \cup validateQuestionTimeLimit(sub.timeLimit)

\* the frequency map a new Question starts with (parseBody): every known
\* answer key at 0
SeedFrequency(sub) ==
  IF sub.kind = MultipleChoiceFormat
    THEN [k \in {toString(i - 1) : i \in 1..Len(sub.items)} |-> 0]
    ELSE [k \in {toLowerCase(sub.items[i].text) : i \in 1..Len(sub.items)} |-> 0]

\* new Question(...): the object fromSubmission returns.  sid is the session
\* whose room the onTimeout closure set by the handler broadcasts to.
NewQuestion(sub, sid) ==
  [sub |-> sub, sid |-> sid, index |-> UnassignedIndex,
   isStarted |-> FALSE, hasEnded |-> FALSE, timers |-> 0, armed |-> FALSE,
   cloneTimers |-> 0,
   responses |-> EmptyMap, frequency |-> SeedFrequency(sub),
   firstCorrect |-> Undef, feedback |-> EmptyMap,
   \* history, not program state:
   announced |-> UnassignedIndex, endedEmits |-> 0, accepted |-> {}, multi |-> FALSE,
   firstEarner |-> Undef, earned |-> FALSE]

\* bodies that all carry no type
BodyTypeNone(q) == Undef

\* Question.body.type: FillInQuestion.body carries no type
BodyType(q) == IF q.sub.kind = MultipleChoiceFormat THEN MultipleChoiceFormat ELSE Undef

\* ------------------------------------------------------------ Question
\* Question.start: opens the question and arms one more expiry timer, whose
\* handle replaces the one this.timeout held.  timers counts the pending
\* timers of the question, armed tells whether the one this.timeout names is
\* among them.
Start(q) == [q EXCEPT !.isStarted = TRUE, !.timers = @ + 1, !.armed = TRUE]

\* an end that leaves the pending timer armed
EndKeepsTimer(q) ==
  IF q.isStarted THEN [q EXCEPT !.hasEnded = TRUE] ELSE q

\* Question.end: closes a started question and clears the timer that
\* this.timeout names
End(q) ==
  IF q.isStarted
    THEN [q EXCEPT !.hasEnded = TRUE, !.timers = IF q.armed THEN @ - 1 ELSE @,
                   !.armed = FALSE]
    ELSE q

\* a pending timer of the question expires: the one this.timeout names
\* (latest), or one armed by an earlier start
CanFire(q, latest) ==
  IF latest THEN q.armed ELSE q.timers > (IF q.armed THEN 1 ELSE 0)
Fired(q, latest) ==
  [q EXCEPT !.timers = @ - 1, !.armed = IF latest THEN FALSE ELSE @]

\* a lookup that compares the texts as they were written
FillInPointsExact(q, text) ==
  LET hits == {i \in 1..Len(q.sub.items) : q.sub.items[i].text = text}
  IN IF hits = {} THEN 0
     ELSE q.sub.items[CHOOSE i \in hits : \A j \in hits : j <= i].points

\* the points of the answer a fill-in response names, 0 when it names none
FillInPoints(q, text) ==
  LET hits == {i \in 1..Len(q.sub.items) :
                 toLowerCase(q.sub.items[i].text) = toLowerCase(text)}
  IN IF hits = {} THEN 0
     ELSE q.sub.items[CHOOSE i \in hits : \A j \in hits : j <= i].points

\* gradeResponse; "throw" when it reads a member of an absent answer
gradeThrows(q, r) ==
  q.sub.kind = FillInFormat /\ r.type = FillInFormat /\ r.answer = Undef

gradeResponse(q, r) ==
  IF q.sub.kind = MultipleChoiceFormat
    THEN IF r.type # MultipleChoiceFormat THEN 0
         ELSE IF r.answer = toString(q.sub.answer)
                THEN q.sub.items[q.sub.answer + 1].points
                ELSE 0
    ELSE IF r.type # FillInFormat THEN 0
         ELSE FillInPoints(q, r.answer)

\* updateFrequency; it throws on an absent multiple-choice answer
updateThrows(q, r) ==
  q.sub.kind = MultipleChoiceFormat /\ r.type = MultipleChoiceFormat /\ r.answer = Undef

updateFrequency(q, r) ==
  IF q.sub.kind = MultipleChoiceFormat
    THEN IF r.type # MultipleChoiceFormat THEN q.frequency
         ELSE MapSet(q.frequency, r.answer,
                     IF r.answer \in DOMAIN q.frequency /\ q.frequency[r.answer] # NaN
                       THEN q.frequency[r.answer] + 1
                       ELSE NaN)
    ELSE IF r.type # FillInFormat THEN q.frequency
         ELSE MapSet(q.frequency, r.answer,
                     IF r.answer \in DOMAIN q.frequency
                       THEN q.frequency[r.answer] + 1
                       ELSE 1)

\* whether Question.addResponse throws before it records anything
addResponseRejects(q, r) ==
  \/ ~q.isStarted
  \/ q.hasEnded
  \/ r.submitter \in DOMAIN q.responses

\* whether Question.addResponse throws at all
addResponseThrows(q, r) ==
  addResponseRejects(q, r) \/ gradeThrows(q, r) \/ updateThrows(q, r)

\* what Question.addResponse leaves of the question, thrown or not
addResponse(q, r) ==
  IF addResponseRejects(q, r) THEN q
  ELSE LET q1 == [q EXCEPT !.responses =
                     MapSet(@, r.submitter, [type |-> r.type, answer |-> r.answer])]
       IN IF gradeThrows(q, r) THEN q1
          ELSE LET q2 == IF gradeResponse(q, r) > 0 /\ q1.firstCorrect = Undef
                           THEN [q1 EXCEPT !.firstCorrect = r.submitter]
                           ELSE q1
               IN IF updateThrows(q, r) THEN q2
                  ELSE [q2 EXCEPT !.frequency = updateFrequency(q2, r)]

\* Question.frequencyOf
frequencyOf(q, r) ==
  IF q.sub.kind = MultipleChoiceFormat
    THEN IF r.type # MultipleChoiceFormat THEN 0
         ELSE IF r.answer \in DOMAIN q.frequency THEN q.frequency[r.answer] ELSE NaN
    ELSE IF r.type # FillInFormat THEN 0
         ELSE IF toLowerCase(r.answer) \in DOMAIN q.frequency
                THEN q.frequency[toLowerCase(r.answer)] ELSE 0

numResponses(q) == Cardinality(DOMAIN q.responses)

\* responseToString throws on an absent multiple-choice answer
responseToStringThrows(r) == r.type = MultipleChoiceFormat /\ r.answer = Undef

\* Question.addFeedback: whether the feedback is stored
addFeedbackOk(q, user) == user \notin DOMAIN q.feedback
addFeedback(q, user, f) ==
  IF user \in DOMAIN q.feedback THEN q ELSE [q EXCEPT !.feedback = MapSet(@, user, f)]

\* Question.clone: index and feedback are not copied, no timer is armed
CloneQuestion(q) ==
  [q EXCEPT !.index = UnassignedIndex, !.feedback = EmptyMap, !.timers = 0,
            !.armed = FALSE, !.cloneTimers = 0]

\* validateResponse: null and undefined types fail, absent answer and
\* submitter pass (they are compared with null by !==)
validateResponse(r) == r.type # Undef /\ r.type \in QuestionFormat

\* Feedback.validate: the rejected fields
FeedbackValidate(f) ==
  (IF f.rating = Undef \/ f.rating \notin {"0", "1", "2", "3", "4"} THEN {"rating"} ELSE {})
  \cup (IF f.length > maxMessageCharacters THEN {"message"} ELSE {})

\* ----------------------------------------------------------------- state
VARIABLES
  sessions,   \* SessionController._sessions: session id -> Session
  heap,       \* the Question objects, by identity
  nextId,     \* how many session ids have been drawn
  rooms,      \* transport: room (session id) -> the connections in it
  connected,  \* transport: the open connections
  last,       \* the latest handler activation: request, acknowledgement, emits
  world       \* the clients of this run: what they send, and how much

vars == <<sessions, heap, nextId, rooms, connected, last, world>>
state == <<sessions, heap, nextId, rooms, connected>>

\* request arguments
AbsentSession == 0                   \* args.session absent
AbsentIndex == -2                    \* args.index / args.question absent
\* the forms of a request: "ok" (args, cb), "noargs" (cb) alone, "nocb" (args)
\* alone
NoResponse == [type |-> Undef, answer |-> Undef, submitter |-> Undef]
BogusResponse == [type |-> "bogus", answer |-> "0", submitter |-> "a"]
McResponses(answers, submitters) ==
  [type : {MultipleChoiceFormat}, answer : answers, submitter : submitters]
FillInResponses(answers, submitters) ==
  [type : {FillInFormat}, answer : answers, submitter : submitters]
NoFeedback == [present |-> FALSE, rating |-> Undef, length |-> 0]
GoodFeedback == [present |-> TRUE, rating |-> "2", length |-> 100]
BadRating == [present |-> TRUE, rating |-> "5", length |-> 100]
LongFeedback == [present |-> TRUE, rating |-> "2", length |-> 101]
NoSubmission ==
  [text |-> "", timeLimit |-> 0, kind |-> Undef, items |-> <<>>, answer |-> 0]

\* the requests of a run: each malformed form once, each well-formed request
\* with every argument the run's clients send
Malformed == world.forms \ {"ok"}
SessionArgs ==
  [form : Malformed, sid : {AbsentSession}]
  \cup [form : {"ok"}, sid : world.sidArgs]
UserArgs ==
  [form : Malformed, sid : {AbsentSession}, name : {Undef}]
  \cup [form : {"ok"}, sid : world.sidArgs, name : world.nameArgs]
SubmissionArgs ==
  [form : Malformed, sid : {AbsentSession}, sub : {NoSubmission}]
  \cup [form : {"ok"}, sid : world.sidArgs, sub : world.submissions]
IndexArgs ==
  [form : Malformed, sid : {AbsentSession}, idx : {AbsentIndex}]
  \cup [form : {"ok"}, sid : world.sidArgs, idx : world.indexArgs]
EditArgs ==
  [form : Malformed, sid : {AbsentSession}, idx : {AbsentIndex}, sub : {NoSubmission}]
  \cup [form : {"ok"}, sid : world.sidArgs, idx : world.indexArgs,
        sub : world.submissions]
HintArgs ==
  [form : Malformed, sid : {AbsentSession}, idx : {AbsentIndex}, hint : {""}]
  \cup [form : {"ok"}, sid : world.sidArgs, idx : world.indexArgs, hint : world.hints]
ResponseArgs ==
  [form : Malformed, sid : {AbsentSession}, name : {Undef}, idx : {AbsentIndex},
   r : {NoResponse}]
  \cup [form : {"ok"}, sid : world.sidArgs, name : world.nameArgs,
        idx : world.indexArgs, r : world.responses]
FeedbackArgs ==
  [form : Malformed, sid : {AbsentSession}, name : {Undef}, idx : {AbsentIndex},
   f : {NoFeedback}]
  \cup [form : {"ok"}, sid : world.sidArgs, name : world.nameArgs,
        idx : world.indexArgs, f : world.feedbacks]

\* an emit: to a room (room > 0) or to one connection's own room (to)
Ev(ev, room, to, except, idx, name) ==
  [ev |-> ev, room |-> room, to |-> to, except |-> except, idx |-> idx, name |-> name]

\* who sends the request, judged on the registry as the request finds it
RequestAuth(c, sid) ==
  IF sid \notin DOMAIN sessions THEN "unknown"
  ELSE IF sessions[sid].owner = c THEN "owner" ELSE "other"

Req(op, form, auth) ==
  [op |-> op, form |-> form, auth |-> auth, acks |-> 0, status |-> "",
   ackEvent |-> "", field |-> "", events |-> <<>>, q |-> 0, idx |-> AbsentIndex,
   user |-> Undef, key |-> Undef, points |-> 0, fc |-> FALSE, stored |-> FALSE,
   ended |-> FALSE, errors |-> {}, frequency |-> 0, total |-> 0]
NoRequest == Req("none", "ok", "none")

Fail(req, ev, field) ==
  [req EXCEPT !.acks = @ + 1, !.status = Failure, !.ackEvent = ev, !.field = field]
Ok(req, ev) ==
  [req EXCEPT !.acks = @ + 1, !.status = Success, !.ackEvent = ev]

\* a transport that supplies a callback with every request
HasCallbackAlways(form) == TRUE

\* callback == null || !(callback instanceof Function)
HasCallback(form) == form # "nocb"

\* the handler's first lines: no arguments (the callback came first), or no
\* callback
NoArgs(req) == last' = Fail(req, req.op, "args") /\ UNCHANGED state
NoCallback(req) == last' = req /\ UNCHANGED state
Rejected(req, field) == last' = Fail(req, req.op, field) /\ UNCHANGED state
\* fromSubmission failed: the acknowledgement carries result.errors
ParseRejected(req, sub) ==
  /\ last' = [Fail(req, req.op, "parse") EXCEPT !.errors = fromSubmissionErrors(sub)]
  /\ UNCHANGED state

\* a controller whose owner-only handlers ask only that the session exists
OwnsAnySession(c, sid) == sid \in DOMAIN sessions

\* session == null || session.owner !== socket.id
Owns(c, sid) == sid \in DOMAIN sessions /\ sessions[sid].owner = c

Range(f) == {f[x] : x \in DOMAIN f}
Bump(n) == IF n < 2 THEN n + 1 ELSE n

\* A question no quiz holds and no timer will call is unreachable; its slot
\* is blanked so that garbage does not tell two states apart.
DeadQuestion == NewQuestion(NoSubmission, 0)
Collect(h, ss) ==
  [i \in 1..Len(h) |->
     IF \/ \E s \in DOMAIN ss : i \in Range(ss[s].questions)
        \/ h[i].timers > 0
        \/ h[i].cloneTimers > 0
       THEN h[i] ELSE DeadQuestion]

\* Quiz, as the handler reaches it through Session.quiz: the live quiz, or a
\* clone of it once the session has ended
numQuestions(S) == Len(S.questions)
HasCurrent(S) == S.currentIndex >= 0 /\ S.currentIndex < numQuestions(S)
InRange(S, i) == i >= 0 /\ i < numQuestions(S)
QuestionAt(S, i) ==
  IF S.hasEnded THEN CloneQuestion(heap[S.questions[i + 1]]) ELSE heap[S.questions[i + 1]]

\* the state after construction, with the connections of the run open
InitState ==
  /\ sessions = EmptyMap
  /\ heap = <<>>
  /\ nextId = 0
  /\ rooms = [s \in 1..world.maxSessions |-> {}]
  /\ connected = world.conns
  /\ last = NoRequest

\* --------------------------------------------------------------- handlers
NewSession(c) ==
  [owner |-> c, isStarted |-> FALSE, hasEnded |-> FALSE, users |-> EmptyMap,
   questions |-> <<>>, currentIndex |-> InitialQuestionIndex]

createSession(c, form) ==
  /\ c \in connected
  /\ LET req == Req("create session", form, "none") IN
     IF ~HasCallback(form) THEN NoCallback(req)
     ELSE /\ nextId < world.maxSessions
          /\ nextId' = nextId + 1
          /\ sessions' = MapSet(sessions, nextId + 1, NewSession(c))
          /\ rooms' = [rooms EXCEPT ![nextId + 1] = @ \cup {c}]
          /\ last' = [Ok(req, "created session") EXCEPT !.idx = nextId + 1]
          /\ UNCHANGED <<heap, connected>>

\* a Session that lets its owner join
addUserOwnerToo(S, name, c) ==
  ~(S.isStarted \/ S.hasEnded \/ name \in DOMAIN S.users)

\* a Session that lets users join after it has started
addUserAfterStart(S, name, c) ==
  ~(c = S.owner \/ S.hasEnded \/ name \in DOMAIN S.users)

\* Session.addUser
addUserOk(S, name, c) ==
  ~(c = S.owner \/ S.isStarted \/ S.hasEnded \/ name \in DOMAIN S.users)

addUserToSession(c, form, sid, name) ==
  /\ c \in connected
  /\ LET req == Req("join session", form, RequestAuth(c, sid)) IN
     IF form = "noargs" THEN NoArgs(req)
     ELSE IF ~HasCallback(form) THEN NoCallback(req)
     ELSE IF sid \notin DOMAIN sessions THEN Rejected(req, "session")
     ELSE IF name = Undef THEN Rejected(req, "name")
     ELSE IF ~addUserOk(sessions[sid], name, c)
       THEN last' = [Fail(req, "join session", "name") EXCEPT !.user = name]
            /\ UNCHANGED state
     ELSE /\ sessions' = [sessions EXCEPT ![sid].users = MapSet(@, name, c)]
          /\ rooms' = [rooms EXCEPT ![sid] = @ \cup {c}]
          /\ last' = [Ok(req, "join session") EXCEPT
                        !.user = name, !.idx = sid,
                        !.events = << Ev("user joined", sid, "", c, AbsentIndex, name) >>]
          /\ UNCHANGED <<heap, nextId, connected>>

addQuestionToSession(c, form, sid, sub) ==
  /\ c \in connected
  /\ LET req == Req("add question", form, RequestAuth(c, sid)) IN
     IF form = "noargs" THEN NoArgs(req)
     ELSE IF ~HasCallback(form) THEN NoCallback(req)
     ELSE IF ~Owns(c, sid) THEN Rejected(req, "session")
     ELSE IF sub = NoSubmission THEN Rejected(req, "question")
     ELSE IF fromSubmissionErrors(sub) # {} THEN ParseRejected(req, sub)
     ELSE IF sessions[sid].hasEnded
       THEN \* the question is appended to a clone of the quiz
            /\ last' = [Ok(req, "add question") EXCEPT !.ended = TRUE]
            /\ UNCHANGED state
       ELSE /\ Len(heap) < world.maxQuestions
            /\ heap' = Append(heap, [NewQuestion(sub, sid) EXCEPT
                                       !.index = numQuestions(sessions[sid])])
            /\ sessions' = [sessions EXCEPT ![sid].questions = Append(@, Len(heap) + 1)]
            /\ last' = [Ok(req, "add question") EXCEPT !.q = Len(heap) + 1]
            /\ UNCHANGED <<nextId, rooms, connected>>

\* a controller that lets the current question be removed and edited
IsCurrentNever(S, idx) == FALSE

\* session.isStarted && session.quiz.currentQuestionIndex === args.index
IsCurrent(S, idx) == S.isStarted /\ S.currentIndex = idx

\* Quiz.removeQuestion: the list without index i, or unchanged when i is out
\* of range
removeQuestion(questions, i) ==
  IF i < 0 \/ i >= Len(questions) THEN questions ELSE ListRemove(questions, i)

removeQuestionFromSession(c, form, sid, idx) ==
  /\ c \in connected
  /\ LET req == Req("remove question", form, RequestAuth(c, sid)) IN
     IF form = "noargs" THEN NoArgs(req)
     ELSE IF ~HasCallback(form) THEN NoCallback(req)
     ELSE IF ~Owns(c, sid) THEN Rejected(req, "session")
     ELSE IF idx = AbsentIndex THEN Rejected(req, "index")
     ELSE IF IsCurrent(sessions[sid], idx) THEN Rejected(req, "index")
     ELSE IF ~InRange(sessions[sid], idx) THEN Rejected(req, "index")
     ELSE IF sessions[sid].hasEnded
       THEN \* removed from a clone of the quiz
            /\ last' = [Ok(req, "remove question") EXCEPT !.ended = TRUE]
            /\ UNCHANGED state
       ELSE LET ss == [sessions EXCEPT ![sid].questions = removeQuestion(@, idx)] IN
            /\ sessions' = ss
            /\ heap' = Collect(heap, ss)
            /\ last' = [Ok(req, "remove question") EXCEPT
                          !.q = sessions[sid].questions[idx + 1], !.idx = idx]
            /\ UNCHANGED <<nextId, rooms, connected>>

\* Quiz.replaceQuestion: whether the body types match
replaceQuestionOk(old, new) == BodyType(new) = BodyType(old)

editQuestionInSession(c, form, sid, idx, sub) ==
  /\ c \in connected
  /\ LET req == Req("edit question", form, RequestAuth(c, sid)) IN
     IF form = "noargs" THEN NoArgs(req)
     ELSE IF ~HasCallback(form) THEN NoCallback(req)
     ELSE IF ~Owns(c, sid) THEN Rejected(req, "session")
     ELSE IF sub = NoSubmission THEN Rejected(req, "question")
     ELSE IF idx = AbsentIndex \/ ~InRange(sessions[sid], idx) THEN Rejected(req, "index")
     ELSE IF IsCurrent(sessions[sid], idx) THEN Rejected(req, "index")
     ELSE IF fromSubmissionErrors(sub) # {} THEN ParseRejected(req, sub)
     ELSE IF ~replaceQuestionOk(QuestionAt(sessions[sid], idx), NewQuestion(sub, sid))
       THEN Rejected(req, "type")
     ELSE IF sessions[sid].hasEnded
       THEN \* replaced in a clone of the quiz
            /\ last' = [Ok(req, "add question") EXCEPT !.ended = TRUE]
            /\ UNCHANGED state
       ELSE LET ss == [sessions EXCEPT ![sid].questions = ListSet(@, idx, Len(heap) + 1)] IN
            /\ Len(heap) < world.maxQuestions
            /\ sessions' = ss
            /\ heap' = Collect(Append(heap, NewQuestion(sub, sid)), ss)
            /\ last' = [Ok(req, "add question") EXCEPT !.q = Len(heap) + 1, !.idx = idx]
            /\ UNCHANGED <<nextId, rooms, connected>>

removeUserFromSession(c, form, sid, name) ==
  /\ c \in connected
  /\ LET req == Req("kick", form, RequestAuth(c, sid)) IN
     IF form = "noargs" THEN NoArgs(req)
     ELSE IF ~HasCallback(form) THEN NoCallback(req)
     ELSE IF ~Owns(c, sid) THEN Rejected(req, "session")
     ELSE IF name = Undef THEN Rejected(req, "name")
     ELSE IF name \notin DOMAIN sessions[sid].users THEN Rejected(req, "name")
     ELSE /\ sessions' = [sessions EXCEPT ![sid].users = MapDelete(@, name)]
          /\ rooms' = [rooms EXCEPT ![sid] = @ \ {sessions[sid].users[name]}]
          /\ last' = [Ok(req, "kick") EXCEPT
                        !.user = name, !.idx = sid, !.key = sessions[sid].users[name],
                        !.events = << Ev("user kicked", sid, "", sessions[sid].owner,
                                         AbsentIndex, name) >>]
          /\ UNCHANGED <<heap, nextId, connected>>

startSession(c, form, sid) ==
  /\ c \in connected
  /\ LET req == Req("start session", form, RequestAuth(c, sid)) IN
     IF form = "noargs" THEN NoArgs(req)
     ELSE IF ~HasCallback(form) THEN NoCallback(req)
     ELSE IF ~Owns(c, sid) THEN Rejected(req, "session")
     ELSE IF sessions[sid].isStarted THEN Rejected(req, "null")
     ELSE /\ sessions' = [sessions EXCEPT ![sid].isStarted = TRUE]
          /\ last' = [Ok(req, "start session") EXCEPT
                        !.events = << Ev("session started", sid, "", sessions[sid].owner,
                                         AbsentIndex, Undef) >>]
          /\ UNCHANGED <<heap, nextId, rooms, connected>>

\* Quiz.advanceToNextQuestion: whether there is a next question
advanceOk(currentIndex, len) == ~(currentIndex + 1 >= len)

\* Quiz.advanceToNextQuestion: the index it moves to (_currentQuestionIndex += 1)
advancedIndexStays(currentIndex) == IF currentIndex < 0 THEN 0 ELSE currentIndex
advancedIndex(currentIndex) == currentIndex + 1

pushNextQuestion(c, form, sid) ==
  /\ c \in connected
  /\ LET req == Req("next question", form, RequestAuth(c, sid)) IN
     IF form = "noargs" THEN NoArgs(req)
     ELSE IF ~HasCallback(form) THEN NoCallback(req)
     ELSE IF ~Owns(c, sid) THEN Rejected(req, "session")
     ELSE IF ~sessions[sid].isStarted THEN Rejected(req, "null")
     ELSE IF ~advanceOk(sessions[sid].currentIndex, numQuestions(sessions[sid]))
       THEN Rejected(req, "numQuestions")
     ELSE LET S == sessions[sid]
              next == advancedIndex(S.currentIndex)
              qid == S.questions[next + 1]
          IN IF S.hasEnded
               THEN \* a clone of the quiz advances and starts a clone of the
                    \* question, whose timer calls the original's onTimeout;
                    \* the index acknowledged is read from another clone
                    /\ heap[qid].cloneTimers < world.maxCloneTimers
                    /\ heap' = [heap EXCEPT ![qid].cloneTimers = @ + 1]
                    /\ last' = [Ok(req, "next question") EXCEPT
                                  !.ended = TRUE, !.q = qid, !.idx = S.currentIndex,
                                  !.events = << Ev("next question", sid, "", S.owner,
                                                   S.currentIndex, Undef) >>]
                    /\ UNCHANGED <<sessions, nextId, rooms, connected>>
               ELSE /\ sessions' = [sessions EXCEPT ![sid].currentIndex = next]
                    /\ heap' = [heap EXCEPT ![qid] = [Start(@) EXCEPT !.announced = next]]
                    /\ last' = [Ok(req, "next question") EXCEPT
                                  !.q = qid, !.idx = next,
                                  !.events = << Ev("next question", sid, "", S.owner,
                                                   next, Undef) >>]
                    /\ UNCHANGED <<nextId, rooms, connected>>

endSession(c, form, sid) ==
  /\ c \in connected
  /\ LET req == Req("end session", form, RequestAuth(c, sid)) IN
     IF form = "noargs" THEN NoArgs(req)
     ELSE IF ~HasCallback(form) THEN NoCallback(req)
     ELSE IF ~Owns(c, sid) THEN Rejected(req, "session")
     ELSE IF sessions[sid].hasEnded THEN Rejected(req, "null")
     ELSE \* Session.end sets the flag and nothing else
          /\ sessions' = [sessions EXCEPT ![sid].hasEnded = TRUE]
          /\ rooms' = [rooms EXCEPT ![sid] = @ \cap {sessions[sid].owner}]
          /\ last' = [Ok(req, "end session") EXCEPT
                        !.events = << Ev("session ended", sid, "", sessions[sid].owner,
                                         AbsentIndex, Undef) >>]
          /\ UNCHANGED <<heap, nextId, connected>>

endCurrentQuestion(c, form, sid, idx) ==
  /\ c \in connected
  /\ LET req == Req("end question", form, RequestAuth(c, sid)) IN
     IF form = "noargs" THEN NoArgs(req)
     ELSE IF ~HasCallback(form) THEN NoCallback(req)
     ELSE IF ~Owns(c, sid) THEN Rejected(req, "session")
     ELSE IF ~sessions[sid].isStarted \/ sessions[sid].hasEnded THEN Rejected(req, "null")
     ELSE IF ~HasCurrent(sessions[sid]) \/ sessions[sid].currentIndex # idx
       THEN Rejected(req, "question")
     ELSE LET S == sessions[sid]
              qid == S.questions[S.currentIndex + 1]
          IN /\ heap' = [heap EXCEPT ![qid] = [End(@) EXCEPT !.endedEmits = Bump(@)]]
             /\ last' = [Ok(req, "end question") EXCEPT
                           !.q = qid, !.idx = idx,
                           !.events = << Ev("question ended", sid, "", S.owner,
                                            S.currentIndex, Undef) >>]
             /\ UNCHANGED <<sessions, nextId, rooms, connected>>

sendQuestionHint(c, form, sid, idx, hint) ==
  /\ c \in connected
  /\ LET req == Req("send hint", form, RequestAuth(c, sid)) IN
     IF form = "noargs" THEN NoArgs(req)
     ELSE IF ~HasCallback(form) THEN NoCallback(req)
     ELSE IF ~Owns(c, sid) THEN Rejected(req, "session")
     ELSE IF Len(hint) = 0 THEN Rejected(req, "hint")
     ELSE IF ~sessions[sid].isStarted \/ sessions[sid].hasEnded THEN Rejected(req, "session")
     ELSE IF ~HasCurrent(sessions[sid]) \/ sessions[sid].currentIndex # idx
       THEN last' = Fail(req, "submit feedback", "question") /\ UNCHANGED state
     ELSE /\ last' = [Ok(req, "send hint") EXCEPT
                        !.events = << Ev("hint received", sid, "", c,
                                         sessions[sid].currentIndex, Undef) >>]
          /\ UNCHANGED state

\* Session.findUserByName(name) is the caller: user != null && user.id === socket.id
IsUser(S, name, c) == name \in DOMAIN S.users /\ S.users[name] = c

\* the history kept with the live question when a response is acknowledged
\* as a success: who was acknowledged, and, of the responses the live
\* question took, who first earned points
NoteAccepted(q, c, r, points, live) ==
  [q EXCEPT !.multi = @ \/ c \in q.accepted,
            !.accepted = @ \cup {c},
            !.earned = @ \/ (live /\ points > 0),
            !.firstEarner = IF live /\ ~q.earned /\ points > 0 THEN r.submitter ELSE @]

addQuestionResponse(c, form, sid, name, idx, r) ==
  /\ c \in connected
  /\ LET req == Req("question response", form, "none") IN
     IF form = "noargs" THEN NoArgs(req)
     ELSE IF ~HasCallback(form) THEN NoCallback(req)
     ELSE IF sid \notin DOMAIN sessions THEN Rejected(req, "session")
     ELSE IF ~IsUser(sessions[sid], name, c) THEN Rejected(req, "name")
     ELSE IF ~HasCurrent(sessions[sid]) THEN Rejected(req, "currentQuestionIndex")
     ELSE IF idx = AbsentIndex \/ idx # sessions[sid].currentIndex THEN Rejected(req, "index")
     ELSE IF ~validateResponse(r) THEN Rejected(req, "response")
     ELSE LET S == sessions[sid]
              qid == S.questions[idx + 1]
              q == QuestionAt(S, idx)
              q1 == addResponse(q, r)
              points == gradeResponse(q, r)
              \* what the live question becomes: a clone's changes are lost
              kept == IF S.hasEnded THEN heap[qid] ELSE q1
              req1 == [req EXCEPT !.q = qid, !.ended = S.hasEnded,
                                  !.idx = idx, !.user = name, !.key = r.submitter,
                                  !.stored = ~S.hasEnded /\ ~addResponseRejects(q, r)]
          IN IF addResponseThrows(q, r)
               THEN /\ heap' = [heap EXCEPT ![qid] = kept]
                    /\ last' = Fail(req1, "question response", "response")
                    /\ UNCHANGED <<sessions, nextId, rooms, connected>>
             ELSE IF responseToStringThrows(r)
               THEN \* thrown while the emit to the owner is being built
                    /\ heap' = [heap EXCEPT ![qid] = kept]
                    /\ last' = req1
                    /\ UNCHANGED <<sessions, nextId, rooms, connected>>
             ELSE /\ heap' = [heap EXCEPT ![qid] = NoteAccepted(kept, c, r, points, ~S.hasEnded)]
                  /\ last' = [Ok(req1, "question response") EXCEPT
                                !.points = points,
                                !.fc = (q1.firstCorrect = name),
                                !.frequency = frequencyOf(q1, r),
                                !.total = numResponses(q1),
                                !.events = << Ev("question response added", 0, S.owner, "",
                                                 idx, name) >>]
                  /\ UNCHANGED <<sessions, nextId, rooms, connected>>

submitQuestionFeedback(c, form, sid, name, idx, f) ==
  /\ c \in connected
  /\ LET req == Req("submit feedback", form, "none") IN
     IF form = "noargs" THEN NoArgs(req)
     ELSE IF ~HasCallback(form) THEN NoCallback(req)
     ELSE IF sid \notin DOMAIN sessions THEN Rejected(req, "session")
     ELSE IF ~IsUser(sessions[sid], name, c) THEN Rejected(req, "name")
     ELSE IF idx = AbsentIndex \/ idx < 0 \/ idx > sessions[sid].currentIndex
       THEN Rejected(req, "question")
     ELSE IF ~f.present THEN Rejected(req, "feedback")
     ELSE IF FeedbackValidate(f) # {} THEN Rejected(req, "validate")
     ELSE IF ~InRange(sessions[sid], idx)
       THEN \* questionAt(idx) is undefined: addFeedback is called on it
            last' = [req EXCEPT !.idx = idx] /\ UNCHANGED state
     ELSE LET S == sessions[sid]
              qid == S.questions[idx + 1]
              q == QuestionAt(S, idx)
          IN IF ~addFeedbackOk(q, name) THEN Rejected(req, "duplicate")
             ELSE /\ heap' = IF S.hasEnded THEN heap
                              ELSE [heap EXCEPT ![qid] = addFeedback(q, name, f.rating)]
                  /\ last' = [Ok(req, "submit feedback") EXCEPT
                                !.q = qid, !.idx = idx, !.user = name,
                                !.ended = S.hasEnded, !.stored = ~S.hasEnded,
                                !.events = << Ev("feedback submitted", 0, S.owner, "",
                                                 q.index, name) >>]
                  /\ UNCHANGED <<sessions, nextId, rooms, connected>>

\* Session.findUserById: the users of the session that the connection joined
\* as; the call returns one of them, or nothing when there is none
findUserById(S, c) == {n \in DOMAIN S.users : S.users[n] = c}

\* SessionController.removeSession: the registry without the session
removeSessionAll(ss, s) == EmptyMap
removeSession(ss, s) == MapDelete(ss, s)

\* handleDisconnect, then the transport takes the connection out of its rooms
handleDisconnect(c) ==
  /\ c \in connected
  /\ connected' = connected \ {c}
  /\ UNCHANGED nextId
  /\ LET req == Req("disconnect", "ok", "none") IN
     IF \E s \in DOMAIN sessions : sessions[s].owner = c
       THEN \* sessions.find: one session the connection owns
            \E s \in DOMAIN sessions :
              /\ sessions[s].owner = c
              /\ LET ss == removeSession(sessions, s) IN
                 /\ sessions' = ss
                 /\ heap' = Collect(heap, ss)
                 /\ rooms' = [r \in DOMAIN rooms |-> IF r = s THEN {} ELSE rooms[r] \ {c}]
                 /\ last' = [req EXCEPT
                               !.auth = "owner", !.idx = s,
                               !.events = << Ev("session ended", s, "", "", AbsentIndex,
                                                Undef) >>]
       ELSE LET hit == {s \in DOMAIN sessions :
                          c \in rooms[s] /\ findUserById(sessions[s], c) # {}}
            IN \E pick \in [hit -> world.names] :
                 /\ \A s \in hit : pick[s] \in findUserById(sessions[s], c)
                 /\ sessions' = [s \in DOMAIN sessions |->
                                   IF s \in hit
                                     THEN [sessions[s] EXCEPT !.users = MapDelete(@, pick[s])]
                                     ELSE sessions[s]]
                 /\ heap' = heap
                 /\ rooms' = [r \in DOMAIN rooms |-> rooms[r] \ {c}]
                 /\ last' = [req EXCEPT
                               !.auth = "other",
                               !.events = [i \in 1..Cardinality(hit) |->
                                            LET s == CHOOSE x \in hit :
                                                       Cardinality({y \in hit : y < x}) = i - 1
                                            IN Ev("user disconnected", s, "", "", AbsentIndex,
                                                  pick[s])]]

\* the expiry timer of a started question fires: Question.end, then the
\* onTimeout the controller installed (end again, broadcast QuestionEnded)
TimerFires(qid) ==
  /\ qid \in 1..Len(heap)
  /\ \E latest \in BOOLEAN :
     /\ CanFire(heap[qid], latest)
     /\ LET h == [heap EXCEPT ![qid] =
                    [End(End(Fired(@, latest))) EXCEPT !.endedEmits = Bump(@)]]
        IN heap' = Collect(h, sessions)
  /\ LET q == heap[qid]
     IN /\ last' = [Req("timer", "ok", "none") EXCEPT
                      !.q = qid, !.idx = q.announced,
                      !.events = << Ev("question ended", q.sid, "", "", q.index, Undef) >>]
        /\ UNCHANGED <<sessions, nextId, rooms, connected>>

\* the timer of a clone started after the session ended fires: the clone
\* ends, and the onTimeout it copied ends and announces the original
CloneTimerFires(qid) ==
  /\ qid \in 1..Len(heap)
  /\ heap[qid].cloneTimers > 0
  /\ LET q == heap[qid]
         h == [heap EXCEPT ![qid] =
                 [End([q EXCEPT !.cloneTimers = @ - 1]) EXCEPT !.endedEmits = Bump(@)]]
     IN /\ heap' = Collect(h, sessions)
        /\ last' = [Req("timer", "ok", "none") EXCEPT
                      !.q = qid, !.ended = TRUE,
                      !.events = << Ev("question ended", q.sid, "", "", q.index, Undef) >>]
        /\ UNCHANGED <<sessions, nextId, rooms, connected>>

\* the connections that send a request of this kind in this run
Senders(op) == {c \in world.conns : op \in world.sends[c]}

\* every step is one handler activation or one timer firing; the clients of
\* the run stay what they are
Next ==
  \/ \E c \in Senders("create session"), form \in world.forms :
       createSession(c, form) /\ UNCHANGED world
  \/ \E c \in Senders("join session"), a \in UserArgs :
       addUserToSession(c, a.form, a.sid, a.name) /\ UNCHANGED world
  \/ \E c \in Senders("add question"), a \in SubmissionArgs :
       addQuestionToSession(c, a.form, a.sid, a.sub) /\ UNCHANGED world
  \/ \E c \in Senders("remove question"), a \in IndexArgs :
       removeQuestionFromSession(c, a.form, a.sid, a.idx) /\ UNCHANGED world
  \/ \E c \in Senders("edit question"), a \in EditArgs :
       editQuestionInSession(c, a.form, a.sid, a.idx, a.sub) /\ UNCHANGED world
  \/ \E c \in Senders("kick"), a \in UserArgs :
       removeUserFromSession(c, a.form, a.sid, a.name) /\ UNCHANGED world
  \/ \E c \in Senders("start session"), a \in SessionArgs :
       startSession(c, a.form, a.sid) /\ UNCHANGED world
  \/ \E c \in Senders("next question"), a \in SessionArgs :
       pushNextQuestion(c, a.form, a.sid) /\ UNCHANGED world
  \/ \E c \in Senders("question response"), a \in ResponseArgs :
       addQuestionResponse(c, a.form, a.sid, a.name, a.idx, a.r) /\ UNCHANGED world
  \/ \E c \in Senders("end session"), a \in SessionArgs :
       endSession(c, a.form, a.sid) /\ UNCHANGED world
  \/ \E c \in Senders("end question"), a \in IndexArgs :
       endCurrentQuestion(c, a.form, a.sid, a.idx) /\ UNCHANGED world
  \/ \E c \in Senders("submit feedback"), a \in FeedbackArgs :
       submitQuestionFeedback(c, a.form, a.sid, a.name, a.idx, a.f) /\ UNCHANGED world
  \/ \E c \in Senders("send hint"), a \in HintArgs :
       sendQuestionHint(c, a.form, a.sid, a.idx, a.hint) /\ UNCHANGED world
  \/ \E c \in Senders("disconnect") : handleDisconnect(c) /\ UNCHANGED world
  \/ \E qid \in 1..Len(heap) : TimerFires(qid) /\ UNCHANGED world
  \/ \E qid \in 1..Len(heap) : CloneTimerFires(qid) /\ UNCHANGED world

\* ------------------------------------------------------------ the runs
\* A run fixes its clients.  Each world keeps one part of the system wide
\* and the rest narrow.

OwnerRequests ==
  {"add question", "remove question", "edit question", "kick", "start session",
   "next question", "end session", "end question", "send hint"}
ParticipantRequests == {"join session", "question response", "submit feedback"}
AllRequests ==
  {"create session", "disconnect"} \cup OwnerRequests \cup ParticipantRequests

\* one session whose quiz is edited freely; one participant, one answer
QuizMaxSessions == 1
QuizMaxQuestions == 2
QuizMaxCloneTimers == 1
QuizWorld ==
  [maxSessions |-> QuizMaxSessions, maxQuestions |-> QuizMaxQuestions,
   maxCloneTimers |-> QuizMaxCloneTimers,
   conns |-> {"c1", "c2"}, names |-> {"a"}, forms |-> {"ok", "noargs"},
   sends |-> [c \in {"c1", "c2"} |->
                IF c = "c1" THEN {"create session"} \cup OwnerRequests
                ELSE OwnerRequests \cup ParticipantRequests \cup {"disconnect"}],
   sidArgs |-> 1..QuizMaxSessions, indexArgs |-> 0..(QuizMaxQuestions - 1),
   nameArgs |-> {"a"},
   submissions |-> {McSubmission, PoorSubmission},
   responses |-> McResponses({"1"}, {"a"}),
   feedbacks |-> {GoodFeedback, BadRating, LongFeedback}, hints |-> {"hint"}]

\* one session with one question, answered in every way
AnswersMaxSessions == 1
AnswersMaxQuestions == 1
AnswersMaxCloneTimers == 1
AnswersWorld ==
  [maxSessions |-> AnswersMaxSessions, maxQuestions |-> AnswersMaxQuestions,
   maxCloneTimers |-> AnswersMaxCloneTimers,
   conns |-> {"c1", "c2"}, names |-> {"a", "b"}, forms |-> {"ok"},
   sends |-> [c \in {"c1", "c2"} |->
                IF c = "c1" THEN {"create session"} \cup OwnerRequests
                ELSE ParticipantRequests \cup {"disconnect"}],
   sidArgs |-> 1..AnswersMaxSessions, indexArgs |-> 0..(AnswersMaxQuestions - 1),
   nameArgs |-> {"a", "b"},
   submissions |-> {McSubmission, FillInSubmission},
   responses |-> McResponses({"0", "1", "2", Undef}, {"a"})
                 \cup McResponses({"1"}, {"b", Undef})
                 \cup FillInResponses({"PARIS"}, {"a"})
                 \cup {BogusResponse},
   feedbacks |-> {GoodFeedback}, hints |-> {"hint"}]

\* two sessions and two connections, each of which creates, joins and
\* leaves; one question, one answer
RegistryMaxSessions == 2
RegistryMaxQuestions == 1
RegistryMaxCloneTimers == 1
RegistryWorld ==
  [maxSessions |-> RegistryMaxSessions, maxQuestions |-> RegistryMaxQuestions,
   maxCloneTimers |-> RegistryMaxCloneTimers,
   conns |-> {"c1", "c2"}, names |-> {"a"}, forms |-> {"ok"},
   sends |-> [c \in {"c1", "c2"} |->
                IF c = "c1"
                  THEN {"create session", "join session", "disconnect"}
                       \cup OwnerRequests
                  ELSE {"create session", "disconnect"} \cup ParticipantRequests],
   sidArgs |-> 1..RegistryMaxSessions, indexArgs |-> 0..(RegistryMaxQuestions - 1),
   nameArgs |-> {"a"},
   submissions |-> {McSubmission},
   responses |-> McResponses({"1"}, {"a"}),
   feedbacks |-> {GoodFeedback}, hints |-> {"hint"}]

\* one session and three connections: its owner, and two that join under
\* two names, leave and are kicked; one question, one answer
MembersMaxSessions == 1
MembersMaxQuestions == 1
MembersMaxCloneTimers == 1
MembersWorld ==
  [maxSessions |-> MembersMaxSessions, maxQuestions |-> MembersMaxQuestions,
   maxCloneTimers |-> MembersMaxCloneTimers,
   conns |-> {"c1", "c2", "c3"}, names |-> {"a", "b"}, forms |-> {"ok"},
   sends |-> [c \in {"c1", "c2", "c3"} |->
                IF c = "c1"
                  THEN {"create session", "join session"} \cup OwnerRequests
                ELSE IF c = "c2"
                  THEN {"disconnect"} \cup ParticipantRequests
                ELSE {"join session", "disconnect"}],
   sidArgs |-> 1..MembersMaxSessions, indexArgs |-> 0..(MembersMaxQuestions - 1),
   nameArgs |-> {"a", "b", Undef},
   submissions |-> {McSubmission},
   responses |-> McResponses({"1"}, {"a"}),
   feedbacks |-> {GoodFeedback}, hints |-> {"hint"}]

InitQuiz == world = QuizWorld /\ InitState
InitAnswers == world = AnswersWorld /\ InitState

SpecQuiz == InitQuiz /\ [][Next]_vars
SpecAnswers == InitAnswers /\ [][Next]_vars
InitRegistry == world = RegistryWorld /\ InitState
SpecRegistry == InitRegistry /\ [][Next]_vars
InitMembers == world = MembersWorld /\ InitState
SpecMembers == InitMembers /\ [][Next]_vars

\* ------------------------------------------------- a Question on its own
\* A started Question used directly, as tests/question.ts does: responses are
\* added until the question expires.
GradeMaxResponses == 2

\* the correct choice is the first one and the other choice carries points too
McFirstSubmission ==
  [text |-> "Q", timeLimit |-> 60, kind |-> MultipleChoiceFormat,
   items |-> << [text |-> "c1", points |-> 100], [text |-> "c2", points |-> 50] >>,
   answer |-> 0]
FillInTwoSubmission ==
  [text |-> "Q", timeLimit |-> 60, kind |-> FillInFormat,
   items |-> << [text |-> "Paris", points |-> 100], [text |-> "London", points |-> 50] >>,
   answer |-> 0]
\* two answers whose texts differ in case only
FillInCaseSubmission ==
  [text |-> "Q", timeLimit |-> 60, kind |-> FillInFormat,
   items |-> << [text |-> "Paris", points |-> 100], [text |-> "PARIS", points |-> 50] >>,
   answer |-> 0]

GradeWorld ==
  [submissions |-> {McSubmission, McFirstSubmission, FillInSubmission,
                    FillInTwoSubmission, FillInCaseSubmission},
   responses |-> McResponses({"0", "1", "2"}, {"a", "b"})
                 \cup FillInResponses({"Paris", "pArIs", "PARIS", "London", "Rome"},
                                      {"a", "b"})]

\* fromSubmission(...) returned a Question and start() was called on it
InitGrade ==
  /\ world = GradeWorld
  /\ sessions = EmptyMap
  /\ rooms = EmptyMap
  /\ connected = {}
  /\ nextId = 1
  /\ \E sub \in GradeWorld.submissions :
       /\ fromSubmissionErrors(sub) = {}
       /\ heap = << Start(NewQuestion(sub, AbsentSession)) >>
  /\ last = [op |-> "none", response |-> NoResponse, points |-> 0]

\* question.addResponse(r): the points it returns, or the error it throws
Respond(r) ==
  /\ numResponses(heap[1]) < GradeMaxResponses
  /\ heap' = << addResponse(heap[1], r) >>
  /\ last' = IF addResponseThrows(heap[1], r)
               THEN [op |-> "throw", response |-> r, points |-> 0]
               ELSE [op |-> "grade", response |-> r,
                     points |-> gradeResponse(heap[1], r)]
  /\ UNCHANGED <<sessions, nextId, rooms, connected, world>>

\* the timer armed by start() fires: end(), and no onTimeout is set
Expire ==
  /\ \E latest \in BOOLEAN :
       /\ CanFire(heap[1], latest)
       /\ heap' = << End(Fired(heap[1], latest)) >>
  /\ last' = [op |-> "expire", response |-> NoResponse, points |-> 0]
  /\ UNCHANGED <<sessions, nextId, rooms, connected, world>>

NextGrade ==
  \/ \E r \in world.responses : Respond(r)
  \/ Expire

SpecGrade == InitGrade /\ [][NextGrade]_vars

\* --------------------------------------------------- the owner authoring
\* One owner who writes, edits and removes questions of both kinds, with
\* totals and time limits at and around their limits, and runs the quiz.
AuthorMaxSessions == 1
AuthorMaxQuestions == 2
AuthorMaxCloneTimers == 1

McOf(points, timeLimit) ==
  [text |-> "Q", timeLimit |-> timeLimit, kind |-> MultipleChoiceFormat,
   items |-> << [text |-> "c1", points |-> 0], [text |-> "c2", points |-> points] >>,
   answer |-> 1]
FillInOf(points, timeLimit) ==
  [text |-> "Q", timeLimit |-> timeLimit, kind |-> FillInFormat,
   items |-> << [text |-> "Paris", points |-> points] >>,
   answer |-> 0]

AuthorWorld ==
  [maxSessions |-> AuthorMaxSessions, maxQuestions |-> AuthorMaxQuestions,
   maxCloneTimers |-> AuthorMaxCloneTimers,
   conns |-> {"c1"}, names |-> {"a"}, forms |-> {"ok"},
   sends |-> [c \in {"c1"} |->
                {"create session", "add question", "remove question", "edit question",
                 "start session", "next question"}],
   sidArgs |-> 1..AuthorMaxSessions, indexArgs |-> 0..(AuthorMaxQuestions - 1),
   nameArgs |-> {"a"},
   submissions |-> {McOf(p, minTimeLimit) : p \in {99, 100, 1000, 1001}}
                   \cup {FillInOf(p, minTimeLimit) : p \in {99, 100, 1000, 1001}}
                   \cup {McOf(200, t) : t \in {59, 60, 300, 301}}
                   \cup {FillInOf(200, t) : t \in {59, 301}},
   responses |-> {}, feedbacks |-> {}, hints |-> {}]

InitAuthor == world = AuthorWorld /\ InitState

NextAuthor ==
  \/ \E c \in Senders("create session"), form \in world.forms :
       createSession(c, form) /\ UNCHANGED world
  \/ \E c \in Senders("add question"), a \in SubmissionArgs :
       addQuestionToSession(c, a.form, a.sid, a.sub) /\ UNCHANGED world
  \/ \E c \in Senders("remove question"), a \in IndexArgs :
       removeQuestionFromSession(c, a.form, a.sid, a.idx) /\ UNCHANGED world
  \/ \E c \in Senders("edit question"), a \in EditArgs :
       editQuestionInSession(c, a.form, a.sid, a.idx, a.sub) /\ UNCHANGED world
  \/ \E c \in Senders("start session"), a \in SessionArgs :
       startSession(c, a.form, a.sid) /\ UNCHANGED world
  \/ \E c \in Senders("next question"), a \in SessionArgs :
       pushNextQuestion(c, a.form, a.sid) /\ UNCHANGED world
  \/ \E qid \in 1..Len(heap) : TimerFires(qid) /\ UNCHANGED world

SpecAuthor == InitAuthor /\ [][NextAuthor]_vars

\* ----------------------------------------------------- a Quiz on its own
\* A Quiz used directly, as its tests do: questions of both kinds are added,
\* removed and replaced at indices within and outside the list.  The quiz is
\* held as the quiz of a session that nobody owns.
AloneMaxQuestions == 4

AloneWorld ==
  [maxQuestions |-> AloneMaxQuestions,
   submissions |-> {McSubmission, McFirstSubmission, FillInSubmission,
                    FillInTwoSubmission},
   indexArgs |-> -1..3]

NoReturn == 0

Returned(op, idx, sub, qid) == [op |-> op, idx |-> idx, sub |-> sub, returned |-> qid]

InitAlone ==
  /\ world = AloneWorld
  /\ sessions = [s \in {1} |-> NewSession(Undef)]
  /\ heap = <<>>
  /\ nextId = 1
  /\ rooms = EmptyMap
  /\ connected = {}
  /\ last = Returned("new", AbsentIndex, NoSubmission, NoReturn)

\* quiz.addQuestion(question)
QuizAddQuestion(sub) ==
  /\ fromSubmissionErrors(sub) = {}
  /\ Len(heap) < world.maxQuestions
  /\ heap' = Append(heap, [NewQuestion(sub, AbsentSession) EXCEPT
                             !.index = numQuestions(sessions[1])])
  /\ sessions' = [sessions EXCEPT ![1].questions = Append(@, Len(heap) + 1)]
  /\ last' = Returned("addQuestion", AbsentIndex, sub, NoReturn)
  /\ UNCHANGED <<nextId, rooms, connected, world>>

\* quiz.removeQuestion(i): the question removed, or nothing
QuizRemoveQuestion(i) ==
  LET ss == [sessions EXCEPT ![1].questions = removeQuestion(@, i)] IN
  /\ sessions' = ss
  /\ heap' = Collect(heap, ss)
  /\ last' = Returned("removeQuestion", i, NoSubmission,
                      IF InRange(sessions[1], i)
                        THEN sessions[1].questions[i + 1] ELSE NoReturn)
  /\ UNCHANGED <<nextId, rooms, connected, world>>

\* quiz.replaceQuestion(i, newQuestion): the old question, or nothing
QuizReplaceQuestion(i, sub) ==
  /\ fromSubmissionErrors(sub) = {}
  /\ Len(heap) < world.maxQuestions
  /\ IF InRange(sessions[1], i)
        /\ replaceQuestionOk(heap[sessions[1].questions[i + 1]],
                             NewQuestion(sub, AbsentSession))
       THEN LET ss == [sessions EXCEPT ![1].questions = ListSet(@, i, Len(heap) + 1)] IN
            /\ sessions' = ss
            /\ heap' = Collect(Append(heap, NewQuestion(sub, AbsentSession)), ss)
            /\ last' = Returned("replaceQuestion", i, sub, sessions[1].questions[i + 1])
       ELSE /\ last' = Returned("replaceQuestion", i, sub, NoReturn)
            /\ UNCHANGED <<sessions, heap>>
  /\ UNCHANGED <<nextId, rooms, connected, world>>

NextAlone ==
  \/ \E sub \in world.submissions : QuizAddQuestion(sub)
  \/ \E i \in world.indexArgs : QuizRemoveQuestion(i)
  \/ \E i \in world.indexArgs, sub \in world.submissions : QuizReplaceQuestion(i, sub)

SpecAlone == InitAlone /\ [][NextAlone]_vars

\* ------------------------------------------------ requests without callback
\* Connections that create and join sessions with and without an
\* acknowledgement callback, with the same arguments either way.
SilentMaxSessions == 2
SilentMaxQuestions == 1
SilentMaxCloneTimers == 1
SilentWorld ==
  [maxSessions |-> SilentMaxSessions, maxQuestions |-> SilentMaxQuestions,
   maxCloneTimers |-> SilentMaxCloneTimers,
   conns |-> {"c1", "c2", "c3"}, names |-> {"a", "b"}, forms |-> {"ok", "nocb"},
   sends |-> [c \in {"c1", "c2", "c3"} |->
                IF c = "c1" THEN {"create session", "kick", "start session"}
                ELSE IF c = "c2" THEN {"create session", "join session", "disconnect"}
                ELSE {"join session"}],
   sidArgs |-> 1..SilentMaxSessions, indexArgs |-> {},
   nameArgs |-> {"a", "b"},
   submissions |-> {}, responses |-> {}, feedbacks |-> {}, hints |-> {}]

InitSilent == world = SilentWorld /\ InitState

NextSilent ==
  \/ \E c \in Senders("create session"), form \in world.forms :
       createSession(c, form) /\ UNCHANGED world
  \/ \E c \in Senders("join session"), form \in world.forms,
          sid \in world.sidArgs, name \in world.nameArgs :
       addUserToSession(c, form, sid, name) /\ UNCHANGED world
  \/ \E c \in Senders("kick"), form \in world.forms,
          sid \in world.sidArgs, name \in world.nameArgs :
       removeUserFromSession(c, form, sid, name) /\ UNCHANGED world
  \/ \E c \in Senders("start session"), form \in world.forms, sid \in world.sidArgs :
       startSession(c, form, sid) /\ UNCHANGED world
  \/ \E c \in Senders("disconnect") : handleDisconnect(c) /\ UNCHANGED world

SpecSilent == InitSilent /\ [][NextSilent]_vars

\* ------------------------------------------ the lifecycle of a Question
\* One Question object whose start() and end() are called in any order, with
\* its timers expiring and responses arriving in between.
LifecycleMaxTimers == 2
LifecycleMaxResponses == 1

LifecycleWorld ==
  [submissions |-> {McSubmission, FillInSubmission},
   responses |-> McResponses({"0", "1"}, {"a", "b"})
                 \cup FillInResponses({"Paris", "London"}, {"a", "b"})]

\* fromSubmission(...) returned a Question; nothing has been called on it
InitLifecycle ==
  /\ world = LifecycleWorld
  /\ sessions = EmptyMap
  /\ rooms = EmptyMap
  /\ connected = {}
  /\ nextId = 1
  /\ \E sub \in LifecycleWorld.submissions :
       /\ fromSubmissionErrors(sub) = {}
       /\ heap = << NewQuestion(sub, AbsentSession) >>
  /\ last = [op |-> "none", response |-> NoResponse, points |-> 0]

\* question.start()
QuestionStart ==
  /\ heap[1].timers < LifecycleMaxTimers
  /\ heap' = << Start(heap[1]) >>
  /\ last' = [op |-> "start", response |-> NoResponse, points |-> 0]
  /\ UNCHANGED <<sessions, nextId, rooms, connected, world>>

\* question.end()
QuestionEnd ==
  /\ heap' = << End(heap[1]) >>
  /\ last' = [op |-> "end", response |-> NoResponse, points |-> 0]
  /\ UNCHANGED <<sessions, nextId, rooms, connected, world>>

\* question.addResponse(r)
LifecycleRespond(r) ==
  /\ numResponses(heap[1]) < LifecycleMaxResponses
  /\ Respond(r)

NextLifecycle ==
  \/ QuestionStart
  \/ QuestionEnd
  \/ Expire
  \/ \E r \in world.responses : LifecycleRespond(r)

SpecLifecycle == InitLifecycle /\ [][NextLifecycle]_vars

\* ------------------------------------------- the order of owner requests
\* One owner who adds, edits and removes up to four questions while the
\* quiz runs, with the timers of the started questions expiring in between.
OrderMaxSessions == 1
OrderMaxQuestions == 4
OrderMaxCloneTimers == 1

OrderWorld ==
  [maxSessions |-> OrderMaxSessions, maxQuestions |-> OrderMaxQuestions,
   maxCloneTimers |-> OrderMaxCloneTimers,
   conns |-> {"c1"}, names |-> {"a"}, forms |-> {"ok"},
   sends |-> [c \in {"c1"} |->
                {"create session", "add question", "remove question", "edit question",
                 "start session", "next question"}],
   sidArgs |-> 1..OrderMaxSessions, indexArgs |-> 0..(OrderMaxQuestions - 1),
   nameArgs |-> {"a"},
   submissions |-> {McSubmission, FillInSubmission},
   responses |-> {}, feedbacks |-> {}, hints |-> {}]

InitOrder == world = OrderWorld /\ InitState

SpecOrder == InitOrder /\ [][NextAuthor]_vars

\* ---------------------------------------------------------------- claims
\* the requests that carry an acknowledgement callback
Acknowledged == last.op \in AllRequests \ {"disconnect"} /\ last.form # "nocb"

\* C1: every request that carries an acknowledgement callback has the
\* callback invoked exactly once: never zero times because the handler threw,
\* never twice.
C1_AckedExactlyOnce == Acknowledged => last.acks = 1

\* C2: an owner-only request (add, edit, remove question, kick, start, end
\* session, next question, end question, send hint) that names an unknown
\* session or comes from a connection that does not own the session is
\* answered with one failure acknowledgement, changes no state and emits
\* nothing.
C2_OwnerOnly ==
  [][(last'.op \in OwnerRequests /\ last'.form = "ok" /\ last'.auth # "owner")
       => (UNCHANGED state /\ last'.acks = 1 /\ last'.status = Failure
           /\ last'.events = <<>>)]_vars
\* a participant of the session has sent an owner-only request
C2_Witness ==
  /\ last.op \in OwnerRequests /\ last.auth = "other" /\ last.status = Failure
  /\ \E s \in DOMAIN sessions : Range(sessions[s].users) # {}

\* C3: every response a question records under a submitter name was sent by
\* the connection that joined under that name.
C3_SubmitterIsSender ==
  (last.op = "question response" /\ last.stored) => last.key = last.user

\* C4: per question and participant connection at most one response is
\* acknowledged as a success.
C4_OneResponsePerConnection == \A i \in 1..Len(heap) : ~heap[i].multi

\* C5: a response is acknowledged as a success only while its question is
\* started and not ended, and not after the session has ended.
C5_AcceptedOnlyWhileOpen ==
  (last.op = "question response" /\ last.status = Success)
    => (~last.ended /\ heap[last.q].isStarted /\ ~heap[last.q].hasEnded)

\* the sum of a question's frequency counts, NaN when one of them is NaN
FrequencyTotal(q) ==
  IF NaN \in Range(q.frequency) THEN NaN ELSE SumFn(q.frequency, DOMAIN q.frequency)

\* C6: in every state the number of recorded responses of a question equals
\* the sum of its frequency counts.
C6_FrequencyCountsResponses ==
  \A i \in 1..Len(heap) : numResponses(heap[i]) = FrequencyTotal(heap[i])

\* C7: firstCorrect is unset until the first accepted response that earns
\* points, is then the submitter of that response, and never changes.
C7_FirstCorrectIsFirstEarner ==
  \A i \in 1..Len(heap) :
    IF heap[i].earned THEN heap[i].firstCorrect = heap[i].firstEarner
    ELSE heap[i].firstCorrect = Undef

\* C8: the current question index of a quiz is at least -1 and less than
\* the number of questions.
C8_IndexInRange ==
  \A s \in DOMAIN sessions :
    /\ InitialQuestionIndex <= sessions[s].currentIndex
    /\ sessions[s].currentIndex < numQuestions(sessions[s])

\* C9: the QuestionEnded broadcast is emitted at most once for a question.
C9_EndedOnce == \A i \in 1..Len(heap) : heap[i].endedEmits <= 1

\* C10: the QuestionEnded broadcast of a question's expiry timer carries the
\* index that next question announced for it.
C10_TimerIndex ==
  (last.op = "timer" /\ ~last.ended) => last.events[1].idx = last.idx

\* C11: once SessionEnded has been emitted for a session (its end session
\* succeeded, or its owner left and it was removed), no QuestionEnded
\* broadcast for that session is emitted.
C11_NoQuestionEndedAfterSessionEnded ==
  \A i \in 1..Len(last.events) :
    last.events[i].ev = "question ended"
      => /\ last.events[i].room \in DOMAIN sessions
         /\ ~sessions[last.events[i].room].hasEnded

\* C12: after a connection disconnects, every session it owned is removed
\* from the registry, also when it created more than one.
C12_OwnedSessionsRemoved ==
  \A s \in DOMAIN sessions : sessions[s].owner \in connected

\* the UserDisconnected broadcasts of the latest step to the room of s
UserDisconnectedIn(events, s) ==
  {i \in 1..Len(events) : events[i].ev = "user disconnected" /\ events[i].room = s}

\* C13: when a connection disconnects, then for every live session whose
\* room it is in and in which it is a user, it is no user of that session
\* afterwards and UserDisconnected is broadcast to that room exactly once.
C13_ParticipantDisconnect ==
  [][\A c \in connected \ connected' :
       \A s \in DOMAIN sessions' :
         (s \in DOMAIN sessions /\ c \in rooms[s] /\ c \in Range(sessions[s].users))
           => /\ c \notin Range(sessions'[s].users)
              /\ Cardinality(UserDisconnectedIn(last'.events, s)) = 1]_vars

\* C14: in every state the owner of a live session is no user of it.
C14_OwnerIsNoUser ==
  \A s \in DOMAIN sessions : sessions[s].owner \notin Range(sessions[s].users)
\* the owner of a session that is open to joins asked to join it under a free
\* name and was refused
C14_Witness ==
  /\ last.op = "join session" /\ last.auth = "owner" /\ last.status = Failure
  /\ last.user # Undef
  /\ \E s \in DOMAIN sessions :
       /\ ~sessions[s].isStarted /\ ~sessions[s].hasEnded
       /\ last.user \notin DOMAIN sessions[s].users

\* C15: within one session no connection is a user under two names.
C15_ConnectionsUnique ==
  \A s \in DOMAIN sessions :
    \A n1, n2 \in DOMAIN sessions[s].users :
      sessions[s].users[n1] = sessions[s].users[n2] => n1 = n2

\* the conditions under which the claim lets a join succeed
JoinAllowed(c, sid, name) ==
  /\ sid \in DOMAIN sessions
  /\ ~sessions[sid].isStarted /\ ~sessions[sid].hasEnded
  /\ name # Undef /\ name \notin DOMAIN sessions[sid].users
  /\ c # sessions[sid].owner

\* C16: a join session request succeeds only if the session is in the
\* registry, neither started nor ended, the name is given and free and the
\* caller is not the owner; otherwise it is answered with one failure, the
\* state (users, rooms) is unchanged and nothing is broadcast.
C16_JoinConditions ==
  [][\A c \in world.conns, sid \in world.sidArgs, name \in world.nameArgs :
       addUserToSession(c, "ok", sid, name)
         => IF JoinAllowed(c, sid, name)
              THEN /\ last'.status = Success
                   /\ sessions'[sid].users = MapSet(sessions[sid].users, name, c)
                   /\ c \in rooms'[sid]
              ELSE /\ UNCHANGED state
                   /\ last'.acks = 1 /\ last'.status = Failure
                   /\ last'.events = <<>>]_vars
\* a connection asked to join a started session under a free name and was
\* refused
C16_Witness ==
  /\ last.op = "join session" /\ last.auth = "other" /\ last.status = Failure
  /\ last.user # Undef
  /\ \E s \in DOMAIN sessions :
       /\ sessions[s].isStarted /\ ~sessions[s].hasEnded
       /\ last.user \notin DOMAIN sessions[s].users

\* C17: in a session that has not started, a join under the name of a user
\* who has just been kicked succeeds, from the kicked connection and from
\* any other connection that is not the owner.
C17_KickThenJoin ==
  [][(/\ last.op = "kick" /\ last.status = Success
      /\ last.idx \in DOMAIN sessions
      /\ ~sessions[last.idx].isStarted)
       => \A c \in world.conns \ {sessions[last.idx].owner} :
            addUserToSession(c, "ok", last.idx, last.user)
              => last'.status = Success]_vars

\* C18: a session that has ended has started.
C18_EndedImpliesStarted ==
  \A s \in DOMAIN sessions : sessions[s].hasEnded => sessions[s].isStarted

\* the requests that must leave an ended session as it is
FrozenRequests == (OwnerRequests \ {"end session"}) \cup ParticipantRequests

\* C19: once a session has ended, no request changes its flags, quiz, user
\* set or questions (responses, feedback, timers).
C19_FrozenAfterEnd ==
  [][\A s \in DOMAIN sessions :
       (sessions[s].hasEnded /\ last'.op \in FrozenRequests)
         => /\ s \in DOMAIN sessions' /\ sessions'[s] = sessions[s]
            /\ \A i \in 1..Len(heap) : heap[i].sid = s => heap'[i] = heap[i]]_vars

\* C20: the points a question gives a response depend on the question body
\* and the response only.  A response of another kind than the body scores 0;
\* a multiple-choice response scores the points of the correct choice when
\* its answer is the body's answer index and 0 otherwise; a fill-in response
\* scores the points of an answer whose text equals its text ignoring case,
\* and 0 when there is none.
C20_Scores(sub, r) ==
  IF r.type # sub.kind THEN {0}
  ELSE IF sub.kind = MultipleChoiceFormat
    THEN IF r.answer = toString(sub.answer)
           THEN {sub.items[sub.answer + 1].points} ELSE {0}
    ELSE LET same == {i \in 1..Len(sub.items) :
                        toLowerCase(sub.items[i].text) = toLowerCase(r.answer)}
         IN IF same = {} THEN {0} ELSE {sub.items[i].points : i \in same}
C20_GradeIsFunctionOfBodyAndResponse ==
  last.op = "grade" => last.points \in C20_Scores(heap[1].sub, last.response)
\* a fill-in response written in another case than the answer earned points,
\* on a question that already held another response
C20_Witness ==
  /\ last.op = "grade"
  /\ heap[1].sub.kind = FillInFormat
  /\ last.response.type = FillInFormat
  /\ \A i \in 1..Len(heap[1].sub.items) : heap[1].sub.items[i].text # last.response.answer
  /\ last.points > 0
  /\ numResponses(heap[1]) = 2

\* C21: an add question request of the owner is accepted only if the points
\* of the submission's choices or answers sum to at least 100 and at most
\* 1000; with a sum outside these limits it is refused with a totalPoints
\* error and registry, quizzes and questions stay as they were.
C21_Total(sub) == SumSeq([i \in 1..Len(sub.items) |-> sub.items[i].points])
C21_TotalPointsLimits ==
  [][\A c \in world.conns, sid \in world.sidArgs, sub \in world.submissions :
       (Owns(c, sid) /\ addQuestionToSession(c, "ok", sid, sub))
         => /\ last'.status = Success => C21_Total(sub) \in 100..1000
            /\ C21_Total(sub) \notin 100..1000
                 => /\ last'.status = Failure
                    /\ "totalPoints" \in last'.errors
                    /\ UNCHANGED state]_vars

\* C22: the time limit of a submitted question is accepted exactly when it
\* is at least 60 and at most 300.  An add question or edit question request
\* that reaches the parser is refused with a timeLimit error exactly when the
\* time limit is outside these limits, and then nothing changes; 60 and 300
\* are accepted, 59 and 301 are not.
C22_Accepted(timeLimit) == 60 <= timeLimit /\ timeLimit <= 300
C22_TimeLimitExact ==
  [][\A c \in world.conns, sid \in world.sidArgs, sub \in world.submissions :
       /\ (Owns(c, sid) /\ addQuestionToSession(c, "ok", sid, sub))
            => /\ ("timeLimit" \in last'.errors) <=> ~C22_Accepted(sub.timeLimit)
               /\ ~C22_Accepted(sub.timeLimit) => last'.status = Failure /\ UNCHANGED state
       /\ \A idx \in world.indexArgs :
            (Owns(c, sid) /\ editQuestionInSession(c, "ok", sid, idx, sub))
              => /\ last'.status = Success => C22_Accepted(sub.timeLimit)
                 /\ last'.field = "parse"
                      => ("timeLimit" \in last'.errors) <=> ~C22_Accepted(sub.timeLimit)
                 /\ ~C22_Accepted(sub.timeLimit) => UNCHANGED state]_vars
\* a submission was refused for its time limit while the quiz holds a
\* question of 60 seconds and one of 300 seconds
C22_Witness ==
  /\ last.op = "add question"
  /\ last.status = Failure
  /\ last.errors = {"timeLimit"}
  /\ \E i, j \in 1..Len(heap) :
       /\ heap[i].sub.timeLimit = 60
       /\ heap[j].sub.timeLimit = 300

\* C23: a question stores at most one feedback per participant.  A submit
\* feedback request of a user whose feedback the question at that index
\* already holds is refused, changes nothing and emits nothing, whether the
\* session is running or has ended.
C23_NoSecondFeedback ==
  [][\A c \in world.conns, sid \in world.sidArgs, name \in world.nameArgs,
       idx \in world.indexArgs, f \in world.feedbacks :
       (/\ sid \in DOMAIN sessions
        /\ IsUser(sessions[sid], name, c)
        /\ InRange(sessions[sid], idx)
        /\ name \in DOMAIN heap[sessions[sid].questions[idx + 1]].feedback
        /\ submitQuestionFeedback(c, "ok", sid, name, idx, f))
         => /\ last'.status = Failure
            /\ last'.events = <<>>
            /\ UNCHANGED state]_vars

\* C24: once a started question has ended, no timer callback runs for it any
\* more: after a successful end question request no expiry of that
\* question's timer changes the question or emits QuestionEnded, however the
\* expiry and the requests interleave.
C24_NoTimerAfterEnd ==
  [][\A qid \in 1..Len(heap) :
       (heap[qid].isStarted /\ heap[qid].hasEnded)
         => ~(last'.op = "timer" /\ last'.q = qid)]_vars
\* end question closed a started question before its timer fired
C24_Witness ==
  /\ last.op = "end question"
  /\ last.status = Success
  /\ last.q \in 1..Len(heap)
  /\ heap[last.q].isStarted
  /\ heap[last.q].hasEnded
  /\ heap[last.q].endedEmits = 1
  /\ heap[last.q].timers = 0

\* C25: SessionStarted is broadcast for a session at most once, and never
\* after SessionEnded was broadcast for it: a step that emits SessionStarted
\* finds the session neither started nor ended.
C25_StartedOnceBeforeEnd ==
  [][\A i \in 1..Len(last'.events) :
       last'.events[i].ev = "session started"
         => /\ last'.events[i].room \in DOMAIN sessions
            /\ ~sessions[last'.events[i].room].isStarted
            /\ ~sessions[last'.events[i].room].hasEnded]_vars

\* C26: a next question request of the owner fails when the session is not
\* started or currentIndex + 1 is no index of the quiz, and then leaves
\* currentIndex and every question unchanged and emits nothing; when it
\* succeeds currentIndex has grown by exactly 1, exactly the question now at
\* currentIndex has been started, and the acknowledgement and the broadcast
\* carry that index.
C26_CanAdvance(S) ==
  S.isStarted /\ S.currentIndex + 1 >= 0 /\ S.currentIndex + 1 < Len(S.questions)
C26_NextQuestionFrame ==
  [][\A c \in world.conns, sid \in world.sidArgs :
       (Owns(c, sid) /\ pushNextQuestion(c, "ok", sid))
         => IF C26_CanAdvance(sessions[sid])
              THEN LET next == sessions[sid].currentIndex + 1
                       qid == sessions[sid].questions[next + 1]
                   IN /\ last'.status = Success
                      /\ sessions'[sid].currentIndex = next
                      /\ sessions'[sid].questions = sessions[sid].questions
                      /\ heap'[qid].isStarted
                      /\ \A i \in 1..Len(heap) : i # qid => heap'[i] = heap[i]
                      /\ last'.idx = next
                      /\ Len(last'.events) = 1
                      /\ last'.events[1].ev = "next question"
                      /\ last'.events[1].idx = next
              ELSE /\ last'.status = Failure
                   /\ last'.events = <<>>
                   /\ UNCHANGED state]_vars

C28_InBounds(questions, i) == 0 <= i /\ i < Len(questions)
C28_ReplaceAndRemove ==
  [][LET qs == sessions[1].questions
         i == last'.idx
     IN /\ last'.op = "replaceQuestion"
             => IF C28_InBounds(qs, i) /\ heap[qs[i + 1]].sub.kind = last'.sub.kind
                  THEN /\ last'.returned = qs[i + 1]
                       /\ Len(sessions'[1].questions) = Len(qs)
                       /\ \A j \in 1..Len(qs) :
                            j # i + 1 => sessions'[1].questions[j] = qs[j]
                       /\ sessions'[1].questions[i + 1] \notin Range(qs)
                       /\ heap'[sessions'[1].questions[i + 1]].sub = last'.sub
                  ELSE /\ last'.returned = NoReturn
                       /\ UNCHANGED <<sessions, heap>>
        /\ (last'.op = "removeQuestion" /\ ~C28_InBounds(qs, i))
             => /\ last'.returned = NoReturn
                /\ UNCHANGED <<sessions, heap>>]_vars
\* a fill-in question was not replaced by a multiple-choice one, in a quiz
\* where a fill-in question had replaced a fill-in question before
C28_Witness ==
  /\ last.op = "replaceQuestion"
  /\ last.returned = NoReturn
  /\ last.idx = 0
  /\ last.sub.kind = MultipleChoiceFormat
  /\ numQuestions(sessions[1]) = 2
  /\ heap[sessions[1].questions[1]].sub = FillInTwoSubmission
  /\ heap[sessions[1].questions[1]].index = UnassignedIndex

\* C29: for every accepted response, the frequency sent to the owner in
\* QuestionResponseAdded is the number of responses the question has taken so
\* far, this one included, with the same answer key (the choice index of a
\* multiple-choice response, the lowercased text of a fill-in response), so
\* it is at least 1; relativeFrequency is that number over the number of
\* responses taken.  Stated for the responses of the question's own kind.
C29_Key(r) == IF r.type = FillInFormat THEN toLowerCase(r.answer) ELSE r.answer
C29_Count(q, key) ==
  Cardinality({n \in DOMAIN q.responses : C29_Key(q.responses[n]) = key})
C29_ReportedFrequency ==
  (/\ last.op = "question response"
   /\ last.status = Success
   /\ ~last.ended
   /\ heap[last.q].responses[last.key].type = heap[last.q].sub.kind)
    => LET q == heap[last.q]
       IN /\ last.frequency = C29_Count(q, C29_Key(q.responses[last.key]))
          /\ last.frequency >= 1
          /\ last.total = Cardinality(DOMAIN q.responses)

\* C30: for each question, the firstCorrect flag of the success
\* acknowledgement of a question response is true for exactly the first
\* accepted response that earned more than 0 points and false for every
\* other accepted response; the firstCorrect name the owner is sent is that
\* response's submitter, or empty while no accepted response has earned
\* points.
C30_FirstCorrectFlag ==
  [][(last'.op = "question response" /\ last'.status = Success /\ ~last'.ended)
       => /\ last'.fc <=> (last'.points > 0 /\ ~heap[last'.q].earned)
          /\ heap'[last'.q].firstCorrect = heap'[last'.q].firstEarner]_vars

\* C31: a submit feedback request of a user of the session with a valid
\* feedback is refused when its question index is greater than currentIndex
\* (or absent, or negative), and is accepted when the index is in
\* 0..currentIndex and it is the user's first feedback for that index: the
\* feedback is then stored on the question at that index and reported to the
\* owner.
C31_FeedbackIndex ==
  [][\A c \in world.conns, sid \in world.sidArgs, name \in world.nameArgs,
       idx \in world.indexArgs :
       (/\ sid \in DOMAIN sessions
        /\ IsUser(sessions[sid], name, c)
        /\ submitQuestionFeedback(c, "ok", sid, name, idx, GoodFeedback))
         => IF idx < 0 \/ idx > sessions[sid].currentIndex
              THEN last'.status = Failure /\ UNCHANGED state
              ELSE ~(/\ InRange(sessions[sid], idx)
                     /\ name \in DOMAIN heap[sessions[sid].questions[idx + 1]].feedback)
                     => /\ last'.status = Success
                        /\ Len(last'.events) = 1
                        /\ last'.events[1].ev = "feedback submitted"
                        /\ last'.events[1].to = sessions[sid].owner
                        /\ InRange(sessions'[sid], idx)
                        /\ name \in DOMAIN heap'[sessions'[sid].questions[idx + 1]].feedback]_vars

\* C32: every acknowledgement carries the event name of the request it
\* answers (created session for create session), on the success path and on
\* every failure path of every handler, with a success or a failure status.
C32_EventOf(op) == IF op = "create session" THEN "created session" ELSE op
C32_AckNamesRequest ==
  last.acks > 0
    => /\ last.ackEvent = C32_EventOf(last.op)
       /\ last.status \in {Success, Failure}

\* C33: a request that arrives without an acknowledgement callback has no
\* effect: create session adds no session, join session adds no user, joins
\* no room and emits nothing; registry, sessions and rooms are as before and
\* nothing is acknowledged.
C33_NoCallbackNoEffect ==
  [][(last'.form = "nocb" /\ last'.op # "disconnect")
       => /\ UNCHANGED state
          /\ last'.acks = 0
          /\ last'.events = <<>>]_vars
\* a join without callback arrived for an open session in which the
\* connection is no user yet and a name is free
C33_Witness ==
  /\ last.op = "join session"
  /\ last.form = "nocb"
  /\ last.auth = "other"
  /\ \E s \in DOMAIN sessions :
       /\ ~sessions[s].isStarted
       /\ ~sessions[s].hasEnded
       /\ DOMAIN sessions[s].users # world.nameArgs
       /\ \E c \in connected \ ({sessions[s].owner} \cup Range(sessions[s].users)) :
            "join session" \in world.sends[c]

\* C34: Question.start() and Question.end() are idempotent: start() on a
\* started question changes nothing and leaves exactly one expiry timer
\* pending, so that end() afterwards leaves none; end() on an ended question
\* and end() on a question never started change nothing.
C34_StartEndIdempotent ==
  [][/\ (QuestionStart /\ heap[1].isStarted) => heap' = heap
     /\ (QuestionStart /\ ~heap[1].hasEnded) => heap'[1].timers = 1
     /\ (QuestionEnd /\ heap[1].isStarted) => heap'[1].timers = 0
     /\ (QuestionEnd /\ (heap[1].hasEnded \/ ~heap[1].isStarted)) => heap' = heap]_vars

\* C35: the quiz view of an ended session is observationally equal to the
\* live quiz: for every question the same index, body, started and ended
\* flags, responses, frequency, firstCorrect and feedback (currentIndex is
\* copied by Quiz.clone and is the same field of the session here).
C35_Observed(q) ==
  [index |-> q.index, body |-> q.sub, isStarted |-> q.isStarted,
   hasEnded |-> q.hasEnded, responses |-> q.responses,
   frequency |-> q.frequency, firstCorrect |-> q.firstCorrect,
   feedback |-> q.feedback]
C35_CloneEqualsLive ==
  \A s \in DOMAIN sessions :
    sessions[s].hasEnded =>
      \A i \in 0..(numQuestions(sessions[s]) - 1) :
        C35_Observed(QuestionAt(sessions[s], i))
          = C35_Observed(heap[sessions[s].questions[i + 1]])

\* C36: in a started session every question at an index 0..currentIndex has
\* been started and every question at an index above currentIndex has not.
C36_StartedUpToCurrent ==
  \A s \in DOMAIN sessions :
    sessions[s].isStarted =>
      \A i \in 0..(numQuestions(sessions[s]) - 1) :
        heap[sessions[s].questions[i + 1]].isStarted
          <=> (i <= sessions[s].currentIndex)

\* C37: at most one question of a quiz is started and not ended, every
\* "question ended" broadcast names the quiz's current question index at the
\* time it is emitted, and a next question request leaves no timer of an
\* earlier question pending.
C37_Open(S, h) ==
  {i \in Range(S.questions) : h[i].isStarted /\ ~h[i].hasEnded}
C37_OneOpenQuestion ==
  [][/\ \A s \in DOMAIN sessions' :
          Cardinality(C37_Open(sessions'[s], heap')) <= 1
     /\ \A k \in 1..Len(last'.events) :
          (last'.events[k].ev = "question ended"
             /\ last'.events[k].room \in DOMAIN sessions)
            => last'.events[k].idx = sessions[last'.events[k].room].currentIndex
     /\ (last'.op = "next question" /\ last'.status = Success /\ ~last'.ended)
          => \A i \in 1..Len(heap') : i # last'.q => heap'[i].timers = 0]_vars

\* C38: through the controller each question object is started at most once,
\* whatever the order of add, edit, remove and next question requests: a
\* step that arms an expiry timer of a question finds that question not
\* started, and no question ever has two timers armed.
C38_StartedAtMostOnce ==
  [][\A i \in 1..Len(heap) :
       /\ heap'[i].timers <= 1
       /\ heap'[i].timers > heap[i].timers => ~heap[i].isStarted]_vars
\* a question is started after an earlier question was removed from the
\* running quiz and its slot passed
C38_Witness ==
  /\ last.op = "next question"
  /\ last.status = Success
  /\ \E s \in DOMAIN sessions :
       /\ sessions[s].currentIndex >= 1
       /\ heap[last.q].timers = 1
       /\ \E i \in 1..Len(heap) :
            /\ i \notin Range(sessions[s].questions)
            /\ heap[i].isStarted

\* C39: a connection that has disconnected is the id of no user of any
\* session in the registry.
C39_GoneIsNoUser ==
  \A c \in world.conns \ connected :
    \A s \in DOMAIN sessions : c \notin Range(sessions[s].users)

\* C40: sessions are isolated: a request that names session X, a timer of a
\* question of X, or the end of X leaves every other session Y in the
\* registry with its flags, quiz, user set and questions unchanged, and
\* emits no broadcast to the room of Y.
C40_Frame(X) ==
  \A Y \in DOMAIN sessions \ {X} :
    /\ Y \in DOMAIN sessions'
    /\ sessions'[Y] = sessions[Y]
    /\ \A i \in 1..Len(heap) : heap[i].sid = Y => heap'[i] = heap[i]
    /\ \A k \in 1..Len(last'.events) : last'.events[k].room # Y
C40_SessionsIsolated ==
  [][/\ \A c \in world.conns :
          /\ \A a \in SessionArgs :
               (\/ startSession(c, a.form, a.sid)
                \/ pushNextQuestion(c, a.form, a.sid)
                \/ endSession(c, a.form, a.sid)) => C40_Frame(a.sid)
          /\ \A a \in UserArgs :
               (\/ addUserToSession(c, a.form, a.sid, a.name)
                \/ removeUserFromSession(c, a.form, a.sid, a.name)) => C40_Frame(a.sid)
          /\ \A a \in SubmissionArgs :
               addQuestionToSession(c, a.form, a.sid, a.sub) => C40_Frame(a.sid)
          /\ \A a \in IndexArgs :
               (\/ removeQuestionFromSession(c, a.form, a.sid, a.idx)
                \/ endCurrentQuestion(c, a.form, a.sid, a.idx)) => C40_Frame(a.sid)
          /\ \A a \in EditArgs :
               editQuestionInSession(c, a.form, a.sid, a.idx, a.sub) => C40_Frame(a.sid)
          /\ \A a \in HintArgs :
               sendQuestionHint(c, a.form, a.sid, a.idx, a.hint) => C40_Frame(a.sid)
          /\ \A a \in ResponseArgs :
               addQuestionResponse(c, a.form, a.sid, a.name, a.idx, a.r)
                 => C40_Frame(a.sid)
          /\ \A a \in FeedbackArgs :
               submitQuestionFeedback(c, a.form, a.sid, a.name, a.idx, a.f)
                 => C40_Frame(a.sid)
          /\ (handleDisconnect(c) /\ last'.auth = "owner") => C40_Frame(last'.idx)
     /\ \A qid \in 1..Len(heap) :
          (TimerFires(qid) \/ CloneTimerFires(qid)) => C40_Frame(heap[qid].sid)]_vars

\* the owner of one session disconnected, ending it, while another session
\* with a question and a user was in the registry
C40_Witness ==
  /\ last.op = "disconnect"
  /\ last.auth = "owner"
  /\ last.idx \notin DOMAIN sessions
  /\ \E Y \in DOMAIN sessions :
       /\ DOMAIN sessions[Y].users # {}
       /\ numQuestions(sessions[Y]) > 0

====
